---- MODULE Spec2Model ----
(***************************************************************************)
(* Model of claude-tui: the terminal sessions of ClaudeWindow              *)
(* (src/window.py) and TerminalWidget (src/terminal.py).                   *)
(*                                                                         *)
(* Each session owns a winpty channel, a pyte HistoryScreen fed through a  *)
(* pyte Stream, and a daemon thread running read_pty.  The thread hands    *)
(* what it reads to the GUI thread through the data_ready signal; the GUI  *)
(* thread runs every slot and event handler (process_output, resizeEvent,  *)
(* keyPressEvent, the timers, create_session, close_session, closeEvent).  *)
(* Handlers whose interleaving with the reader thread matters are split    *)
(* at the points where the thread can observe or change shared state.      *)
(***************************************************************************)
EXTENDS Integers, Sequences, FiniteSets, TLC

(**************************** bounds ***************************************)
\* inputs the program is given in one run: the events of the GUI thread (key
\* presses, timer expiries, resize events, tab clicks, new-tab and close-tab
\* requests, window closes) and the non-empty chunks of child output
MaxEvents == 3
\* every session after the first takes a new-tab event
MaxSessions == MaxEvents + 1

(************************ program constants ********************************)
InitCols == 120
InitRows == 30
MinCols == 80
MinRows == 24
HistorySize == 10000

Sessions == 1..MaxSessions

\* Strings are sequences of one-character strings.
Notice == <<"\n", "[", "S", "e", "s", "s", "i", "o", "n", " ",
            "e", "n", "d", "e", "d", "]", "\n">>
\* what the n-th non-empty read of a run returns
ChunkAt(n) == IF n % 2 = 1 THEN <<"a">> ELSE <<"b", "\n">>
\* the setPlainText argument of start_pty's except clause; the message of
\* the exception is not modelled, the text stands for the whole message
ErrorText == <<"Error starting terminal">>
\* data of key events, paste and voice input
KeyData == {<<"x">>}
ClaudeCmd == <<"c", "l", "a", "u", "d", "e", "\r">>
PressOne == <<"1">>
\* (cols, rows) that viewport size / character size can give in resizeEvent
ViewportCells == {<<60, 20>>, <<100, 40>>}

Max(a, b) == IF a >= b THEN a ELSE b
Min(a, b) == IF a <= b THEN a ELSE b

(********************** pyte.HistoryScreen, pyte.Stream ********************)
\* A screen is [columns, lines, x, y, buffer, top, history] together with
\* the state of the Stream that feeds it, [parser, params, current].
\* buffer is pyte's sparse dict of rows: a function from the row numbers
\* (0-based) that are present to rows; a row that is absent reads as a
\* blank row, and reading it through the defaultdict creates it.  A row is
\* the sequence of its cells up to the last one written; a cell never
\* written is absent (Absent) and reads as the default blank.  top is
\* history.top, oldest row first, and history its maxlen.  parser is where
\* the Stream is in a sequence ("ground", "esc" after ESC, "csi" after
\* ESC [), params the CSI parameters collected, current the digits of the
\* parameter being collected (NoDigits when there are none).
BlankRow == <<>>
Absent == ""
NoRows == [y \in {} |-> BlankRow]
ESC == "\\e"
NoDigits == 0 - 1
\* min(int(current or 0), 9999)
MaxParam == 9999

NewScreen(columns, lines, history) ==
    [columns |-> columns, lines |-> lines, x |-> 0, y |-> 0,
     buffer |-> NoRows, top |-> <<>>, history |-> history,
     parser |-> "ground", params |-> <<>>, current |-> NoDigits]

\* self.buffer[y]
Row(buf, y) == IF y \in DOMAIN buf THEN buf[y] ELSE BlankRow

\* buf after self.buffer[y] has been read for every y of ys
Touch(buf, ys) == [y \in (DOMAIN buf) \cup ys |-> Row(buf, y)]

\* row with cell x (0-based) set to ch
SetCell(row, x, ch) ==
    [i \in 1..Max(Len(row), x + 1) |->
        IF i = x + 1 THEN ch ELSE IF i <= Len(row) THEN row[i] ELSE Absent]

\* Variant: a deque that refuses the new row when it is full.
PushTopKeepOld(top, row, maxlen) ==
    IF Len(top) >= maxlen THEN top ELSE Append(top, row)

\* history.top is a deque(maxlen=history): append(row)
PushTop(top, row, maxlen) ==
    IF Len(top) >= maxlen THEN Append(Tail(top), row) ELSE Append(top, row)

\* Screen.index at the bottom row: for y in range(top, bottom):
\* buffer[y] = buffer[y + 1]; buffer.pop(bottom, None)
ScrollUp(buf, lines) ==
    [y \in ((DOMAIN buf) \ (0..(lines - 1))) \cup (0..(lines - 2)) |->
        IF y < lines - 1 THEN Row(buf, y + 1) ELSE buf[y]]

\* Variant: index that appends the top row to the history wherever the
\* cursor is.
IndexAlwaysPush(scr) ==
    IF scr.y = scr.lines - 1
    THEN [scr EXCEPT !.top = PushTop(scr.top, Row(scr.buffer, 0), scr.history),
                     !.buffer = ScrollUp(scr.buffer, scr.lines)]
    ELSE [scr EXCEPT !.top = PushTop(scr.top, Row(scr.buffer, 0), scr.history),
                     !.y = Min(scr.y + 1, scr.lines - 1)]

\* HistoryScreen.index / Screen.index: line feed, scrolling at the bottom
Index(scr) ==
    IF scr.y = scr.lines - 1
    THEN [scr EXCEPT !.top = PushTop(scr.top, Row(scr.buffer, 0), scr.history),
                     !.buffer = ScrollUp(scr.buffer, scr.lines)]
    ELSE [scr EXCEPT !.y = Min(scr.y + 1, scr.lines - 1)]

\* Screen.draw of one printable character (DECAWM set: wrap at the edge)
Draw(scr, ch) ==
    LET s1 == IF scr.x = scr.columns THEN Index([scr EXCEPT !.x = 0]) ELSE scr
        buf == Touch(s1.buffer, {s1.y})
    IN  [s1 EXCEPT !.buffer = [buf EXCEPT ![s1.y] = SetCell(buf[s1.y], s1.x, ch)],
                   !.x = Min(s1.x + 1, s1.columns)]

\* Screen.cursor_up(count): the top margin is row 0
CursorUp(scr, count) ==
    [scr EXCEPT !.y = Max(scr.y - (IF count = 0 THEN 1 ELSE count), 0)]

\* Screen.cursor_forward(count), with ensure_hbounds
CursorForward(scr, count) ==
    [scr EXCEPT !.x = Min(Max(0, scr.x + (IF count = 0 THEN 1 ELSE count)),
                          scr.columns - 1)]

\* the control characters of the Stream's basic table that are modelled
Basic(scr, ch) ==
    IF ch = "\n" THEN Index(scr) ELSE [scr EXCEPT !.x = 0]

Digits == {"2"}
DigitValue(ch) == 2

\* how many positional arguments the Screen method of a CSI final
\* character takes (cursor_up(count), cursor_forward(count)); a final
\* character with no method goes to debug(*args, **kwargs)
AnyArity == 0 - 1
CsiArity(final) == IF final \in {"A", "C"} THEN 1 ELSE AnyArity

\* csi_dispatch[char](*params) raises TypeError when the method is given
\* more arguments than it takes
CsiRaises(final, params) ==
    CsiArity(final) # AnyArity /\ Len(params) > CsiArity(final)

CsiDispatch(scr, final, params) ==
    CASE final = "A" -> CursorUp(scr, params[1])
      [] final = "C" -> CursorForward(scr, params[1])
      [] OTHER       -> scr

\* the parser back in its initial state (_initialize_parser)
ResetParser(scr) ==
    [scr EXCEPT !.parser = "ground", !.params = <<>>, !.current = NoDigits]

\* the parameter list once the digits collected are appended to it
WithCurrent(scr) ==
    Append(scr.params, Min(IF scr.current = NoDigits THEN 0 ELSE scr.current, MaxParam))

\* the character ends a CSI sequence whose method call raises
CharRaises(scr, ch) ==
    /\ scr.parser = "csi"
    /\ ch \notin {"\n", "\r", ";"} \cup Digits
    /\ CsiRaises(ch, WithCurrent(scr))

\* Stream.feed of one character that raises nothing
FeedChar(scr, ch) ==
    CASE scr.parser = "ground" ->
            IF ch = ESC THEN [scr EXCEPT !.parser = "esc"]
            ELSE IF ch \in {"\n", "\r"} THEN Basic(scr, ch)
            ELSE Draw(scr, ch)
      [] scr.parser = "esc" ->
            IF ch = "[" THEN [scr EXCEPT !.parser = "csi", !.params = <<>>,
                                         !.current = NoDigits]
            ELSE ResetParser(scr)       \* escape_dispatch: no such method, debug
      [] OTHER ->
            IF ch \in {"\n", "\r"} THEN Basic(scr, ch)
            ELSE IF ch \in Digits
            THEN [scr EXCEPT !.current =
                    (IF @ = NoDigits THEN 0 ELSE @) * 10 + DigitValue(ch)]
            ELSE IF ch = ";"
            THEN [scr EXCEPT !.params = WithCurrent(scr), !.current = NoDigits]
            ELSE ResetParser(CsiDispatch(scr, ch, WithCurrent(scr)))

\* Stream.feed(data) raises (TypeError out of a Screen method)
RECURSIVE FeedRaises(_, _)
FeedRaises(scr, data) ==
    IF data = <<>> THEN FALSE
    ELSE IF CharRaises(scr, Head(data)) THEN TRUE
    ELSE FeedRaises(FeedChar(scr, Head(data)), Tail(data))

\* the screen and stream after Stream.feed(data): when a method raises,
\* _send_to_parser resets the parser and raises again, and the rest of
\* data is not looked at
RECURSIVE Feed(_, _)
Feed(scr, data) ==
    IF data = <<>> THEN scr
    ELSE IF CharRaises(scr, Head(data)) THEN ResetParser(scr)
    ELSE Feed(FeedChar(scr, Head(data)), Tail(data))

\* Screen.delete_lines(count) with the cursor at (0, 0) and no margins:
\* for y in range(0, lines): if y + count <= bottom: if y + count in buffer:
\* buffer[y] = buffer.pop(y + count); else: buffer.pop(y, None)
RECURSIVE DeleteLinesFrom(_, _, _, _)
DeleteLinesFrom(buf, y, count, lines) ==
    IF y >= lines THEN buf
    ELSE LET b1 == IF y + count <= lines - 1
                   THEN IF y + count \in DOMAIN buf
                        THEN [k \in ((DOMAIN buf) \ {y + count}) \cup {y} |->
                                IF k = y THEN buf[y + count] ELSE buf[k]]
                        ELSE buf
                   ELSE [k \in (DOMAIN buf) \ {y} |-> buf[k]]
         IN  DeleteLinesFrom(b1, y + 1, count, lines)

\* for x in range(columns, self.columns): line.pop(x, None)
CutRow(row, columns) == SubSeq(row, 1, Min(Len(row), columns))

\* Variant: a resize that leaves the screen as it is.
ScreenResizeKeepsSize(scr, lines, columns) == scr

\* Screen.resize(lines, columns): a shrink deletes lines at the top
\* (save_cursor, cursor_position(0, 0), delete_lines, restore_cursor, which
\* bounds the cursor by the old size) and cuts the cells beyond the new
\* width; the cursor is not bounded by the new size
ScreenResize(scr, lines, columns) ==
    LET b1 == IF lines < scr.lines
              THEN DeleteLinesFrom(scr.buffer, 0, scr.lines - lines, scr.lines)
              ELSE scr.buffer
        b2 == IF columns < scr.columns
              THEN [y \in DOMAIN b1 |-> CutRow(b1[y], columns)]
              ELSE b1
        x1 == IF lines < scr.lines THEN Min(Max(0, scr.x), scr.columns - 1) ELSE scr.x
        y1 == IF lines < scr.lines THEN Min(Max(0, scr.y), scr.lines - 1) ELSE scr.y
    IN  IF lines = scr.lines /\ columns = scr.columns THEN scr
        ELSE [scr EXCEPT !.lines = lines, !.columns = columns, !.buffer = b2,
                         !.x = x1, !.y = y1]

(********************** render_screen **************************************)
\* str.rstrip(): the line up to its last character that is not whitespace
Whitespace == {" ", "\n", "\r", "\t"}
RStrip(line) ==
    LET keep == {i \in 1..Len(line) : line[i] \notin Whitespace}
    IN  IF keep = {} THEN <<>>
        ELSE SubSeq(line, 1, CHOOSE i \in keep : \A j \in keep : j <= i)

\* while lines and not lines[-1]: lines.pop()
DropTrailingEmpty(lines) ==
    LET keep == {i \in 1..Len(lines) : lines[i] # <<>>}
    IN  IF keep = {} THEN <<>>
        ELSE SubSeq(lines, 1, CHOOSE i \in keep : \A j \in keep : j <= i)

RECURSIVE Join(_)
Join(lines) ==
    IF lines = <<>> THEN <<>>
    ELSE IF Len(lines) = 1 THEN lines[1]
    ELSE lines[1] \o <<"\n">> \o Join(Tail(lines))

\* "".join(char.data or " " for char in hist_line.values()): only the
\* cells present in the sparse row
HistLine(row) == SelectSeq(row, LAMBDA c : c # Absent)

\* "".join(buffer[y][x].data or " " for x in range(columns)).rstrip(): every
\* column, a blank for each absent cell.  The columns after the last cell
\* of the row are all blanks, which rstrip removes, so the join is taken
\* up to the last cell of the row.
GridLine(row, columns) ==
    RStrip([x \in 1..Min(Len(row), columns) |-> IF row[x] # Absent THEN row[x] ELSE " "])

\* the text render_screen computes (new_text)
RenderText(scr) ==
    LET hist == [i \in 1..Len(scr.top) |-> RStrip(HistLine(scr.top[i]))]
        grid == [i \in 1..scr.lines |->
                    GridLine(Row(scr.buffer, i - 1), scr.columns)]
    IN  Join(DropTrailingEmpty(hist \o grid))

\* the screen after render_screen has read buffer[y] for every grid row
Rendered(scr) == [scr EXCEPT !.buffer = Touch(@, 0..(scr.lines - 1))]

\* Variant: render_screen without the assignment to _last_text.
RenderScreenNoCache(scr, last, shown) ==
    LET new_text == RenderText(scr) IN
    [screen    |-> Rendered(scr),
     last_text |-> last,
     plainText |-> IF new_text # last THEN new_text ELSE shown,
     changed   |-> new_text # last]

\* render_screen on a widget with screen scr, _last_text last and shown
\* text shown: the three afterwards, and whether the text was rewritten
\* (setPlainText, and the scroll to the bottom that follows it)
RenderScreen(scr, last, shown) ==
    LET new_text == RenderText(scr) IN
    [screen    |-> Rendered(scr),
     last_text |-> IF new_text # last THEN new_text ELSE last,
     plainText |-> IF new_text # last THEN new_text ELSE shown,
     changed   |-> new_text # last]

(************************** state ******************************************)
VARIABLES
    \* ClaudeWindow
    session_counter,    \* sessions created so far; session ids are 1..session_counter
    terminals,          \* the session list, in tab order
    tab_buttons,        \* for each tab button, the index its clicked handler is bound to
    checked,            \* for each tab button, whether it is checked (shown as selected)
    current_tab_index,
    events,             \* inputs taken so far
    \* TerminalWidget, one per session id
    pty_process,        \* "None" or "PTY"
    chan,               \* the winpty channel: "none", "nochild" (spawn failed), "open", "closed"
    ptySize,            \* <<cols, rows>> the channel reports to the child
    running,
    read_thread,        \* "None" or "Thread"
    screen,
    last_text,          \* _last_text
    plainText,          \* the text the widget shows (setPlainText)
    timers,             \* the pending single-shot timers, in firing order
    \* the reader thread of each session
    wpc,                \* its position in read_pty
    wdata,              \* the data it holds
    \* the GUI thread
    queue,              \* posted data_ready deliveries, oldest first
    frame,              \* per execution context, the slot or handler it is inside
    uncaught,           \* an exception left a handler
    \* history, for stating the properties
    readLog,            \* per session, the non-empty chunks read, in read order
    fedLog,             \* per session, the data passed to stream.feed, in call order
    writeLog,           \* per session, the write_to_pty calls that reached the channel
    cleaned,            \* per session, cleanup calls that have returned
    started,            \* per session, how its start_pty ended ("none": not created)
    \* the vertical scroll bar of each terminal, and what _on_scroll keeps
    sbValue,            \* verticalScrollBar().value()
    sbMax,              \* verticalScrollBar().maximum()
    user_scrolling,     \* _user_scrolling
    \* VoiceRecognizer and the voice input of ClaudeWindow
    is_recording,
    mic,                \* what status_bar.set_recording was last given
    returned,           \* <<v>> for the value v the last toggle_recording call returned
    voiceEnter,         \* the pending "\r" timers of _on_voice_result: their terminals
    voiceLog            \* the voice results handled: session then current, text, translation

winVars == <<session_counter, terminals, tab_buttons, checked, current_tab_index>>
ptyVars == <<pty_process, chan, ptySize, running, read_thread, timers>>
viewVars == <<screen, last_text, plainText>>
workerVars == <<wpc, wdata>>
logVars == <<readLog, fedLog, writeLog, cleaned, started>>
scrollVars == <<sbValue, sbMax, user_scrolling>>
voiceVars == <<is_recording, mic, returned, voiceEnter, voiceLog>>
vars == <<winVars, ptyVars, viewVars, workerVars, queue, frame, events, uncaught, logVars,
          scrollVars, voiceVars>>

\* execution contexts: the GUI thread, and the reader thread of session s
GUI == 0
Worker(s) == s
Contexts == {GUI} \cup Sessions

NoFrame == [op |-> "none", pc |-> "none", sess |-> 0, data |-> <<>>, arg |-> <<0, 0>>]
Idle(ctx) == frame[ctx].op = "none"

RECURSIVE SumLen(_, _)
SumLen(f, n) == IF n = 0 THEN 0 ELSE Len(f[n]) + SumLen(f, n - 1)
\* non-empty chunks read so far, over all sessions
Reads == SumLen(readLog, MaxSessions)

\* one more input is taken
TakeInput == /\ events < MaxEvents
             /\ events' = events + 1

\* the GUI thread is between handlers and takes the next event
TakeEvent == /\ frame[GUI].op = "none"
             /\ TakeInput

(********************* the data_ready signal *******************************)
\* Variant: a direct connection, the slot runs in the emitting thread.
DirectContext(emitter) == emitter

\* Variant: the delivery is put at the head of the event queue.
PostFront(q, ev) == <<ev>> \o q

\* data_ready.connect(self.process_output) is an AutoConnection: the widget
\* lives in the GUI thread, so an emit from another thread is queued and
\* the slot runs in the GUI thread
SlotContext(emitter) == GUI

\* a queued emit is posted at the tail of the GUI thread's event queue
Post(q, ev) == Append(q, ev)

\* data_ready.emit(data) by the reader thread of s
Emit(s, data) ==
    LET ctx == SlotContext(Worker(s)) IN
    IF ctx = GUI
    THEN /\ queue' = Post(queue, [sess |-> s, data |-> data])
         /\ UNCHANGED frame
    ELSE /\ frame' = [frame EXCEPT ![ctx] =
                [NoFrame EXCEPT !.op = "process_output", !.pc = "feed",
                                !.sess = s, !.data = data]]
         /\ UNCHANGED queue

(********************* exceptions ******************************************)
\* Variants: the close call of cleanup, or the write call of write_to_pty,
\* outside a try block.
HandlesAllButClose(site) == site \in {"start_pty", "read", "write", "set_size"}
HandlesAllButWrite(site) == site \in {"start_pty", "read", "set_size", "close"}

\* the places where the code calls into the channel inside a try block
\* whose except clause handles whatever is raised
Handles(site) == site \in {"start_pty", "read", "write", "set_size", "close"}

Escapes(site, raised) == raised /\ ~Handles(site)

(********************* start_pty *******************************************)
\* Variant: self.running = True placed before the spawn call.
StartPtyRunningFirst(outcome) ==
    [pty_process |-> IF outcome = "pty_failed" THEN "None" ELSE "PTY",
     chan        |-> CASE outcome = "pty_failed" -> "none"
                       [] outcome = "spawn_failed" -> "nochild"
                       [] OTHER -> "open",
     running     |-> outcome # "pty_failed",
     read_thread |-> IF outcome = "ok" THEN "Thread" ELSE "None",
     wpc         |-> IF outcome = "ok" THEN "loop" ELSE "idle",
     timers      |-> IF outcome = "ok" THEN <<"claude", "one">> ELSE <<>>,
     plainText   |-> IF outcome = "ok" THEN <<>> ELSE ErrorText]

\* the widget fields start_pty leaves, by how far it got:
\* "pty_failed" (winpty.PTY raised), "spawn_failed" (spawn raised), "ok"
StartPty(outcome) ==
    [pty_process |-> IF outcome = "pty_failed" THEN "None" ELSE "PTY",
     chan        |-> CASE outcome = "pty_failed" -> "none"
                       [] outcome = "spawn_failed" -> "nochild"
                       [] OTHER -> "open",
     running     |-> outcome = "ok",
     read_thread |-> IF outcome = "ok" THEN "Thread" ELSE "None",
     wpc         |-> IF outcome = "ok" THEN "loop" ELSE "idle",
     timers      |-> IF outcome = "ok" THEN <<"claude", "one">> ELSE <<>>,
     plainText   |-> IF outcome = "ok" THEN <<>> ELSE ErrorText]

StartOutcomes == {"ok", "pty_failed", "spawn_failed"}

(********************* switch_tab ******************************************)
\* Variant: switch_tab without its range test.
SwitchTabUnchecked(cur, index, n) == index

\* current_tab_index after switch_tab(index) with n sessions in the list
SwitchTab(cur, index, n) == IF 0 <= index /\ index < n THEN index ELSE cur

\* the checked states of the tab buttons after switch_tab(index):
\* for i, btn in enumerate(self.tab_buttons): btn.setChecked(i == index)
SwitchChecked(chk, index, n) ==
    IF 0 <= index /\ index < n THEN [i \in 1..Len(chk) |-> i - 1 = index] ELSE chk

(********************* Init: the window after construction *****************)
Init ==
    \E o \in StartOutcomes :
        LET st == StartPty(o) IN
        /\ session_counter = 1
        /\ terminals = <<1>>
        /\ tab_buttons = <<0>>
        /\ checked = <<TRUE>>
        /\ current_tab_index = SwitchTab(-1, 0, 1)
        /\ events = 0
        /\ pty_process = [s \in Sessions |-> IF s = 1 THEN st.pty_process ELSE "None"]
        /\ chan = [s \in Sessions |-> IF s = 1 THEN st.chan ELSE "none"]
        /\ ptySize = [s \in Sessions |-> <<InitCols, InitRows>>]
        /\ running = [s \in Sessions |-> IF s = 1 THEN st.running ELSE FALSE]
        /\ read_thread = [s \in Sessions |-> IF s = 1 THEN st.read_thread ELSE "None"]
        /\ screen = [s \in Sessions |-> NewScreen(InitCols, InitRows, HistorySize)]
        /\ last_text = [s \in Sessions |-> <<>>]
        /\ plainText = [s \in Sessions |-> IF s = 1 THEN st.plainText ELSE <<>>]
        /\ timers = [s \in Sessions |-> IF s = 1 THEN st.timers ELSE <<>>]
        /\ wpc = [s \in Sessions |-> IF s = 1 THEN st.wpc ELSE "idle"]
        /\ wdata = [s \in Sessions |-> <<>>]
        /\ queue = <<>>
        /\ frame = [c \in Contexts |-> NoFrame]
        /\ uncaught = FALSE
        /\ readLog = [s \in Sessions |-> <<>>]
        /\ fedLog = [s \in Sessions |-> <<>>]
        /\ writeLog = [s \in Sessions |-> <<>>]
        /\ cleaned = [s \in Sessions |-> 0]
        /\ started = [s \in Sessions |-> IF s = 1 THEN o ELSE "none"]
        /\ sbValue = [s \in Sessions |-> 0]
        /\ sbMax = [s \in Sessions |-> 0]
        /\ user_scrolling = [s \in Sessions |-> FALSE]
        /\ is_recording = FALSE
        /\ mic = FALSE
        /\ returned = <<>>
        /\ voiceEnter = <<>>
        /\ voiceLog = <<>>

(********************* read_pty: the reader thread *************************)
\* what pty_process.read() can do: nothing to read, a chunk of child
\* output, or an exception (the child is gone or the channel is closed)
ReadOutcomes(s) ==
    IF chan[s] = "open"
    THEN {"empty", "raise"} \cup (IF events < MaxEvents THEN {"chunk"} ELSE {})
    ELSE {"raise"}

\* Variant: the except clause without its break.
AfterHandlerLoop == "loop"

\* where the except clause of read_pty leaves the thread: break
AfterHandler == "break"

Stopped(s) == wpc[s] \in {"exit", "break"}

\* while self.running and self.pty_process:
WorkerLoop(s) ==
    /\ wpc[s] = "loop" /\ Idle(Worker(s))
    /\ wpc' = [wpc EXCEPT ![s] =
                IF running[s] /\ pty_process[s] # "None" THEN "read" ELSE "exit"]
    /\ UNCHANGED <<events, winVars, ptyVars, viewVars, wdata, queue, frame, uncaught, logVars>>
    /\ UNCHANGED <<scrollVars, voiceVars>>

\* data = self.pty_process.read()
WorkerRead(s) ==
    /\ wpc[s] = "read" /\ Idle(Worker(s))
    /\ \E o \in ReadOutcomes(s) :
         CASE o = "empty" ->
                /\ wpc' = [wpc EXCEPT ![s] = "loop"]
                /\ UNCHANGED <<wdata, readLog, uncaught, events>>
           [] o = "chunk" ->
                /\ TakeInput
                /\ wpc' = [wpc EXCEPT ![s] = "emit"]
                /\ wdata' = [wdata EXCEPT ![s] = ChunkAt(Reads + 1)]
                /\ readLog' = [readLog EXCEPT ![s] = Append(@, ChunkAt(Reads + 1))]
                /\ UNCHANGED uncaught
           [] OTHER ->
                /\ wpc' = [wpc EXCEPT ![s] = IF Handles("read") THEN "except" ELSE "break"]
                /\ uncaught' = (uncaught \/ Escapes("read", TRUE))
                /\ UNCHANGED <<wdata, readLog, events>>
    /\ UNCHANGED <<winVars, ptyVars, viewVars, queue, frame, fedLog, writeLog, cleaned,
                   started>>
    /\ UNCHANGED <<scrollVars, voiceVars>>

\* if data: self.data_ready.emit(data); time.sleep(0.005)
WorkerEmit(s) ==
    /\ wpc[s] = "emit" /\ Idle(Worker(s))
    /\ Emit(s, wdata[s])
    /\ wpc' = [wpc EXCEPT ![s] = "loop"]
    /\ wdata' = [wdata EXCEPT ![s] = <<>>]
    /\ UNCHANGED <<events, winVars, ptyVars, viewVars, uncaught, logVars>>
    /\ UNCHANGED <<scrollVars, voiceVars>>

\* except Exception: if self.running:
WorkerExcept(s) ==
    /\ wpc[s] = "except" /\ Idle(Worker(s))
    /\ wpc' = [wpc EXCEPT ![s] = IF running[s] THEN "notice" ELSE AfterHandler]
    /\ UNCHANGED <<events, winVars, ptyVars, viewVars, wdata, queue, frame, uncaught, logVars>>
    /\ UNCHANGED <<scrollVars, voiceVars>>

\* self.data_ready.emit("\n[Session ended]\n"); break
WorkerNotice(s) ==
    /\ wpc[s] = "notice" /\ Idle(Worker(s))
    /\ Emit(s, Notice)
    /\ wpc' = [wpc EXCEPT ![s] = AfterHandler]
    /\ UNCHANGED <<events, winVars, ptyVars, viewVars, wdata, uncaught, logVars>>
    /\ UNCHANGED <<scrollVars, voiceVars>>

(********************* the vertical scroll bar ******************************)
\* The scroll bar of a QPlainTextEdit counts lines: its maximum is the number
\* of lines of the document beyond those the viewport shows.  Qt emits
\* valueChanged for every change of the value that is not made under its own
\* signal blocker; QPlainTextEdit blocks the signal while it repositions the
\* view, but not while a new range clamps the value.

\* lines of the document that holds text
LineCount(text) == 1 + Cardinality({i \in 1..Len(text) : text[i] = "\n"})

\* lines the viewport shows: resizeEvent takes the rows of the screen from it
PageLines(scr) == scr.lines

\* the distance from the bottom up to which the view still follows it
Tolerance == 10

\* Variant: any position above the bottom counts as scrolled away.
OnScrollAnyAbove(value, maximum) == value < maximum

\* _on_scroll(value), the slot of valueChanged: the new _user_scrolling
OnScroll(value, maximum) == value < maximum - Tolerance

\* setPlainText(text) on a widget with scroll state sb: the range becomes that
\* of the new document; a value above the new maximum is clamped to it, which
\* emits valueChanged; the view is then put at the top of the document with
\* the signal blocked
SetPlainTextScroll(sb, text, page) ==
    LET maximum == Max(0, LineCount(text) - page)
        clamped == sb.value > maximum
    IN  [value |-> 0,
         maximum |-> maximum,
         user_scrolling |-> IF clamped THEN OnScroll(maximum, maximum)
                            ELSE sb.user_scrolling]

\* if not self._user_scrolling: scrollbar.setValue(scrollbar.maximum())
AutoScroll(sb) ==
    IF sb.user_scrolling THEN sb
    ELSE [sb EXCEPT !.value = sb.maximum,
                    !.user_scrolling = IF sb.value # sb.maximum
                                       THEN OnScroll(sb.maximum, sb.maximum) ELSE @]

\* the scroll state of session s
ScrollState(s) ==
    [value |-> sbValue[s], maximum |-> sbMax[s], user_scrolling |-> user_scrolling[s]]

\* the scroll state of session s becomes sb
SetScroll(s, sb) ==
    /\ sbValue' = [sbValue EXCEPT ![s] = sb.value]
    /\ sbMax' = [sbMax EXCEPT ![s] = sb.maximum]
    /\ user_scrolling' = [user_scrolling EXCEPT ![s] = sb.user_scrolling]

(********************* process_output **************************************)
\* the GUI thread takes the oldest posted delivery and enters the slot
Dispatch ==
    /\ Idle(GUI) /\ queue # <<>>
    /\ frame' = [frame EXCEPT ![GUI] =
            [NoFrame EXCEPT !.op = "process_output", !.pc = "feed",
                            !.sess = Head(queue).sess, !.data = Head(queue).data]]
    /\ queue' = Tail(queue)
    /\ UNCHANGED <<events, winVars, ptyVars, viewVars, workerVars, uncaught, logVars>>
    /\ UNCHANGED <<scrollVars, voiceVars>>

\* the slot body, in whichever context runs it:
\* self.stream.feed(data); self.render_screen()
\* An exception out of feed leaves the slot before render_screen.  A render
\* that rewrites the text moves the scroll bar (render_screen, lines 158-167).
ProcessOutput(ctx) ==
    /\ frame[ctx].op = "process_output"
    /\ LET s == frame[ctx].sess
           raised == FeedRaises(screen[s], frame[ctx].data)
           fed == Feed(screen[s], frame[ctx].data)
           r == RenderScreen(fed, last_text[s], plainText[s])
       IN /\ fedLog' = [fedLog EXCEPT ![s] = Append(@, frame[ctx].data)]
          /\ uncaught' = (uncaught \/ Escapes("feed", raised))
          /\ IF raised
             THEN /\ screen' = [screen EXCEPT ![s] = fed]
                  /\ UNCHANGED <<last_text, plainText, scrollVars>>
             ELSE /\ screen' = [screen EXCEPT ![s] = r.screen]
                  /\ last_text' = [last_text EXCEPT ![s] = r.last_text]
                  /\ plainText' = [plainText EXCEPT ![s] = r.plainText]
                  /\ IF r.changed
                     THEN SetScroll(s, AutoScroll(SetPlainTextScroll(
                                ScrollState(s), r.plainText, PageLines(r.screen))))
                     ELSE UNCHANGED scrollVars
    /\ frame' = [frame EXCEPT ![ctx] = NoFrame]
    /\ UNCHANGED <<events, winVars, ptyVars, workerVars, queue,
                   readLog, writeLog, cleaned, started>>
    /\ UNCHANGED voiceVars

(********************* write_to_pty ****************************************)
\* pty_process.write(data): accepted, or an exception
WriteOutcomes(s) == IF chan[s] = "open" THEN {TRUE, FALSE} ELSE {FALSE}

WriteToPty(s, data) ==
    IF pty_process[s] = "None"
    THEN UNCHANGED <<writeLog, uncaught>>
    ELSE \E ok \in WriteOutcomes(s) :
            /\ writeLog' = [writeLog EXCEPT ![s] = Append(@, [data |-> data, ok |-> ok])]
            /\ uncaught' = (uncaught \/ Escapes("write", ~ok))

(*********************** keyPressEvent: the key encoder ********************)
\* Qt.Key values of the keys keyPressEvent tests
Key_Escape == 16777216
Key_Tab == 16777217
Key_Backspace == 16777219
Key_Return == 16777220
Key_Enter == 16777221
Key_Delete == 16777223
Key_Home == 16777232
Key_End == 16777233
Key_Left == 16777234
Key_Up == 16777235
Key_Right == 16777236
Key_Down == 16777237
Key_PageUp == 16777238
Key_PageDown == 16777239
Key_A == 65
Key_C == 67
Key_D == 68
Key_L == 76
Key_V == 86
Key_Z == 90

\* strings of the key encoder are sequences of code points; no bytes
NoBytes == <<>>

\* the chain of tests on the key alone: the sequence of the first test
\* that matches, NoBytes when none does
NamedKey(key) ==
    IF key = Key_Return \/ key = Key_Enter THEN <<13>>
    ELSE IF key = Key_Backspace THEN <<127>>
    ELSE IF key = Key_Tab THEN <<9>>
    ELSE IF key = Key_Escape THEN <<27>>
    ELSE IF key = Key_Up THEN <<27, 91, 65>>
    ELSE IF key = Key_Down THEN <<27, 91, 66>>
    ELSE IF key = Key_Right THEN <<27, 91, 67>>
    ELSE IF key = Key_Left THEN <<27, 91, 68>>
    ELSE IF key = Key_Home THEN <<27, 91, 72>>
    ELSE IF key = Key_End THEN <<27, 91, 70>>
    ELSE IF key = Key_Delete THEN <<27, 91, 51, 126>>
    ELSE IF key = Key_PageUp THEN <<27, 91, 53, 126>>
    ELSE IF key = Key_PageDown THEN <<27, 91, 54, 126>>
    ELSE NoBytes

\* Variant: the generic rule without its + 1.
CtrlKeyNoOffset(key) ==
    IF key = Key_C THEN <<3>>
    ELSE IF key = Key_D THEN <<4>>
    ELSE IF key = Key_Z THEN <<26>>
    ELSE IF key = Key_L THEN <<12>>
    ELSE IF key >= Key_A /\ key <= Key_Z THEN <<key - Key_A>>
    ELSE NoBytes

\* the tests inside the branch taken when the modifiers are exactly Control
CtrlKey(key) ==
    IF key = Key_C THEN <<3>>
    ELSE IF key = Key_D THEN <<4>>
    ELSE IF key = Key_Z THEN <<26>>
    ELSE IF key = Key_L THEN <<12>>
    ELSE IF key >= Key_A /\ key <= Key_Z THEN <<key - Key_A + 1>>
    ELSE NoBytes

KeyOp(op, data) == [op |-> op, data |-> data]

KeyEncodeCtrlFirst(key, modifiers, text) ==
    IF modifiers = {"Control", "Shift"} /\ key = Key_C THEN KeyOp("copy", NoBytes)
    ELSE IF modifiers = {"Control", "Shift"} /\ key = Key_V THEN KeyOp("paste", NoBytes)
    ELSE IF modifiers = {"Control"}
         THEN (IF CtrlKey(key) # NoBytes THEN KeyOp("write", CtrlKey(key))
               ELSE KeyOp("none", NoBytes))
    ELSE IF NamedKey(key) # NoBytes THEN KeyOp("write", NamedKey(key))
    ELSE IF text # NoBytes THEN KeyOp("write", text)
    ELSE KeyOp("none", NoBytes)

\* what TerminalWidget.keyPressEvent does with an event: copy, paste,
\* one write_to_pty of a sequence, or nothing
KeyEncode(key, modifiers, text) ==
    IF modifiers = {"Control", "Shift"} /\ key = Key_C THEN KeyOp("copy", NoBytes)
    ELSE IF modifiers = {"Control", "Shift"} /\ key = Key_V THEN KeyOp("paste", NoBytes)
    ELSE IF NamedKey(key) # NoBytes THEN KeyOp("write", NamedKey(key))
    ELSE IF modifiers = {"Control"}
         THEN (IF CtrlKey(key) # NoBytes THEN KeyOp("write", CtrlKey(key))
               ELSE KeyOp("none", NoBytes))
    ELSE IF text # NoBytes THEN KeyOp("write", text)
    ELSE KeyOp("none", NoBytes)

\* TerminalWidget.keyPressEvent(event) on session s; clip is the text of
\* the system clipboard when paste_clipboard reads it
TerminalKeyPress(s, event, clip) ==
    LET e == KeyEncode(event.key, event.modifiers, event.text) IN
    IF e.op = "write" THEN WriteToPty(s, e.data)
    ELSE IF e.op = "paste" /\ clip # NoBytes THEN WriteToPty(s, clip)
    ELSE UNCHANGED <<writeLog, uncaught>>

\* ClaudeWindow.keyPressEvent -> TerminalWidget.keyPressEvent -> write_to_pty
KeyPress(data) ==
    /\ TakeEvent
    /\ 0 <= current_tab_index /\ current_tab_index < Len(terminals)
    /\ LET s == terminals[current_tab_index + 1] IN
        /\ WriteToPty(s, data)
    /\ UNCHANGED <<winVars, ptyVars, viewVars, workerVars, queue, frame,
                   readLog, fedLog, cleaned, started>>
    /\ UNCHANGED <<scrollVars, voiceVars>>

\* the single-shot timers of start_pty: write "claude\r", then auto_press_one
TimerFire(s) ==
    /\ TakeEvent
    /\ timers[s] # <<>>
    /\ IF Head(timers[s]) = "claude"
       THEN WriteToPty(s, ClaudeCmd)
       ELSE IF running[s] THEN WriteToPty(s, PressOne)
                          ELSE UNCHANGED <<writeLog, uncaught>>
    /\ timers' = [timers EXCEPT ![s] = Tail(@)]
    /\ UNCHANGED <<winVars, pty_process, chan, ptySize, running, read_thread,
                   viewVars, workerVars, queue, frame, readLog, fedLog, cleaned,
                   started>>
    /\ UNCHANGED <<scrollVars, voiceVars>>

(********************* resizeEvent *****************************************)
InList(s) == \E i \in 1..Len(terminals) : terminals[i] = s

\* cols = max(80, width // char_width); rows = max(24, height // char_height)
Geometry(vp) == <<Max(MinCols, vp[1]), Max(MinRows, vp[2])>>

\* self.pty_process.set_size(cols, rows): done, or an exception (except: pass)
SetSizeOutcomes(s) == IF chan[s] = "open" THEN {TRUE, FALSE} ELSE {FALSE}

\* resizeEvent up to and including the set_size call
ResizeEvent(s, vp) ==
    /\ TakeEvent
    /\ InList(s)
    /\ IF pty_process[s] = "None"
       THEN UNCHANGED <<ptySize, frame, uncaught>>
       ELSE \E ok \in SetSizeOutcomes(s) :
             /\ ptySize' = [ptySize EXCEPT ![s] = IF ok THEN Geometry(vp) ELSE @]
             /\ frame' = [frame EXCEPT ![GUI] =
                    IF ok THEN [NoFrame EXCEPT !.op = "resizeEvent", !.pc = "screen_resize",
                                               !.sess = s, !.arg = Geometry(vp)]
                    ELSE NoFrame]
             /\ uncaught' = (uncaught \/ Escapes("set_size", ~ok))
    /\ UNCHANGED <<winVars, pty_process, chan, running, read_thread, timers,
                   viewVars, workerVars, queue, logVars>>
    /\ UNCHANGED <<scrollVars, voiceVars>>

\* self.screen.resize(rows, cols)
ScreenResizeStep ==
    /\ frame[GUI].op = "resizeEvent" /\ frame[GUI].pc = "screen_resize"
    /\ LET s == frame[GUI].sess IN
        /\ screen' = [screen EXCEPT ![s] =
                        ScreenResize(@, frame[GUI].arg[2], frame[GUI].arg[1])]
    /\ frame' = [frame EXCEPT ![GUI] = NoFrame]
    /\ UNCHANGED <<events, winVars, ptyVars, last_text, plainText, workerVars, queue,
                   uncaught, logVars>>
    /\ UNCHANGED <<scrollVars, voiceVars>>

(********************* create_session / switch_tab *************************)
\* create_session: a new TerminalWidget (its start_pty ends with outcome o),
\* appended to the list, with a tab button bound to its index, and selected
CreateSession(o) ==
    /\ TakeEvent
    /\ session_counter < MaxSessions
    /\ LET s == session_counter + 1
           st == StartPty(o)
           tab_index == Len(tab_buttons)
       IN /\ session_counter' = s
          /\ pty_process' = [pty_process EXCEPT ![s] = st.pty_process]
          /\ chan' = [chan EXCEPT ![s] = st.chan]
          /\ running' = [running EXCEPT ![s] = st.running]
          /\ read_thread' = [read_thread EXCEPT ![s] = st.read_thread]
          /\ wpc' = [wpc EXCEPT ![s] = st.wpc]
          /\ timers' = [timers EXCEPT ![s] = st.timers]
          /\ plainText' = [plainText EXCEPT ![s] = st.plainText]
          /\ terminals' = Append(terminals, s)
          /\ tab_buttons' = Append(tab_buttons, tab_index)
          /\ checked' = SwitchChecked(Append(checked, FALSE), tab_index, Len(terminals) + 1)
          /\ current_tab_index' = SwitchTab(current_tab_index, tab_index, Len(terminals) + 1)
          /\ uncaught' = (uncaught \/ Escapes("start_pty", o # "ok"))
          /\ started' = [started EXCEPT ![s] = o]
    /\ UNCHANGED <<ptySize, screen, last_text, wdata, queue, frame,
                   readLog, fedLog, writeLog, cleaned>>
    /\ UNCHANGED <<scrollVars, voiceVars>>

\* a click on tab button b (0-based position): the checkable button toggles,
\* then switch_tab(its bound index)
TabClick(b) ==
    /\ TakeEvent
    /\ b < Len(tab_buttons)
    /\ current_tab_index' = SwitchTab(current_tab_index, tab_buttons[b + 1], Len(terminals))
    /\ checked' = SwitchChecked([checked EXCEPT ![b + 1] = ~@], tab_buttons[b + 1],
                                Len(terminals))
    /\ UNCHANGED <<session_counter, terminals, tab_buttons, ptyVars, viewVars,
                   workerVars, queue, frame, uncaught, logVars>>
    /\ UNCHANGED <<scrollVars, voiceVars>>

(********************* cleanup, close_session, closeEvent ******************)
\* Variant: a cleanup that leaves the running flag as it is.
CleanupRunningKept(run, s) == run

\* Variant: a running flag shared by all the sessions.
CleanupRunningAll(run, s) == [t \in DOMAIN run |-> FALSE]

\* self.running = False
CleanupRunning(run, s) == [run EXCEPT ![s] = FALSE]

\* Variant: cleanup without the close call.
PtyCloseNothing(c) == c

\* self.pty_process.close() inside try/except: the channel afterwards
PtyClose(c) == "closed"

\* close() on a channel that is not open may raise
CloseRaises(c) == IF c = "open" THEN {FALSE} ELSE {FALSE, TRUE}

Remove(seq, i) == SubSeq(seq, 1, i - 1) \o SubSeq(seq, i + 1, Len(seq))

\* Variant: close_session without the loop that reconnects the buttons.
RebindKept(buttons) == buttons

\* for i, b in enumerate(self.tab_buttons): b.clicked.disconnect();
\* b.clicked.connect(lambda checked, idx=i: self.switch_tab(idx))
Rebind(buttons) == [i \in 1..Len(buttons) |-> i - 1]

\* close_session(index), up to and including the first statement of cleanup
CloseSession(index) ==
    /\ TakeEvent
    /\ LET idx == index IN
       IF Len(terminals) > 1 /\ 0 <= idx /\ idx < Len(terminals)
       THEN /\ frame' = [frame EXCEPT ![GUI] =
                    [NoFrame EXCEPT !.op = "close_session", !.pc = "cleanup_close",
                                    !.sess = terminals[idx + 1], !.arg = <<idx, 0>>]]
            /\ running' = CleanupRunning(running, terminals[idx + 1])
       ELSE UNCHANGED <<frame, running>>
    /\ UNCHANGED <<winVars, pty_process, chan, ptySize, read_thread, timers, viewVars,
                   workerVars, queue, uncaught, logVars>>
    /\ UNCHANGED <<scrollVars, voiceVars>>

\* closeEvent: cleanup of every terminal of the list, in list order; this
\* step is the first statement of the first cleanup.  The event loop is not
\* modelled as ending with the window: what it would still handle after a
\* closeEvent, another closeEvent included, is handled.
CloseEvent ==
    /\ TakeEvent
    /\ frame' = [frame EXCEPT ![GUI] =
            [NoFrame EXCEPT !.op = "closeEvent", !.pc = "cleanup_close",
                            !.sess = terminals[1], !.arg = <<0, 0>>]]
    /\ running' = CleanupRunning(running, terminals[1])
    /\ UNCHANGED <<winVars, pty_process, chan, ptySize, read_thread, timers, viewVars,
                   workerVars, queue, uncaught, logVars>>
    /\ UNCHANGED <<scrollVars, voiceVars>>

\* closeEvent, first statement of the cleanup of the next terminal
CleanupStart ==
    /\ frame[GUI].pc = "cleanup"
    /\ running' = CleanupRunning(running, frame[GUI].sess)
    /\ frame' = [frame EXCEPT ![GUI].pc = "cleanup_close"]
    /\ UNCHANGED <<events, winVars, pty_process, chan, ptySize, read_thread, timers, viewVars,
                   workerVars, queue, uncaught, logVars>>
    /\ UNCHANGED <<scrollVars, voiceVars>>

\* cleanup, the rest: close the channel if there is one, and return to the
\* caller, which finishes (close_session) or goes on to the next terminal
\* (closeEvent)
CleanupFinish ==
    /\ frame[GUI].pc = "cleanup_close"
    /\ LET s == frame[GUI].sess
           idx == frame[GUI].arg[1]
       IN /\ IF pty_process[s] = "None"
             THEN UNCHANGED <<chan, uncaught>>
             ELSE \E raised \in CloseRaises(chan[s]) :
                    /\ chan' = [chan EXCEPT ![s] = PtyClose(@)]
                    /\ uncaught' = (uncaught \/ Escapes("close", raised))
          /\ cleaned' = [cleaned EXCEPT ![s] = @ + 1]
          /\ IF frame[GUI].op = "close_session"
             THEN /\ terminals' = Remove(terminals, idx + 1)
                  /\ tab_buttons' = Rebind(Remove(tab_buttons, idx + 1))
                  /\ checked' = SwitchChecked(Remove(checked, idx + 1),
                                              Min(idx, Len(terminals) - 2),
                                              Len(terminals) - 1)
                  /\ current_tab_index' =
                        SwitchTab(current_tab_index, Min(idx, Len(terminals) - 2),
                                  Len(terminals) - 1)
                  /\ frame' = [frame EXCEPT ![GUI] = NoFrame]
             ELSE /\ frame' = [frame EXCEPT ![GUI] =
                        IF idx + 1 < Len(terminals)
                        THEN [@ EXCEPT !.pc = "cleanup", !.sess = terminals[idx + 2],
                                       !.arg = <<idx + 1, 0>>]
                        ELSE NoFrame]
                  /\ UNCHANGED <<terminals, tab_buttons, checked, current_tab_index>>
    /\ UNCHANGED <<session_counter, pty_process, ptySize, running, read_thread, timers,
                   viewVars, workerVars, queue, events, readLog, fedLog, writeLog,
                   started>>
    /\ UNCHANGED <<scrollVars, voiceVars>>

(********************* voice input *****************************************)
\* An optional string (Optional[str]): <<>> is None, <<t>> is the string t.
None == <<>>
Some(t) == <<t>>
\* the truth value Python gives an optional string: None and "" are false
Truthy(opt) == opt # None /\ opt[1] # <<>>

\* what _transcribe can return for the recorded audio
Transcriptions == {None, Some(<<>>), Some(<<"v">>), Some(<<" ">>)}
\* how the translation model can end: an exception or a failed load, an empty
\* decoded string, a translation
TranslateOutcomes == {"fails", "empty", "text"}
Translation == <<"t">>

\* Translator.translate(text): "" for an empty or blank text, None when the
\* model cannot be loaded or raises, else the decoded result
Translate(text, outcome) ==
    IF text = <<>> \/ RStrip(text) = <<>> THEN Some(<<>>)
    ELSE CASE outcome = "fails" -> None
           [] outcome = "empty" -> Some(<<>>)
           [] OTHER -> Some(Translation)

\* output = translated if translated else text
VoiceOutput(text, translated) == IF Truthy(translated) THEN translated[1] ELSE text

\* Variant: the delayed Enter goes to the terminal that is current when the
\* timer fires.
EnterTerminalCurrent(captured) ==
    IF 0 <= current_tab_index /\ current_tab_index < Len(terminals)
    THEN terminals[current_tab_index + 1] ELSE captured

\* lambda: terminal.write_to_pty("\r"): the terminal the lambda captured
EnterTerminal(captured) == captured

\* _toggle_voice_recording (the microphone button, Alt+T):
\* toggle_recording, then status_bar.set_recording of what it returned.
\* While recording, toggle_recording is stop_recording, which transcribes and,
\* for a result that is not None or "", calls _on_voice_result before it
\* returns; otherwise it is start_recording, whose audio stream starts or
\* raises.
ToggleRecording ==
    /\ TakeEvent
    /\ IF is_recording
       THEN /\ is_recording' = FALSE
            /\ returned' = <<FALSE>>
            /\ mic' = FALSE
            /\ \E heard \in Transcriptions :
                IF Truthy(heard) /\ 0 <= current_tab_index
                                 /\ current_tab_index < Len(terminals)
                THEN \E outcome \in TranslateOutcomes :
                      LET terminal == terminals[current_tab_index + 1]
                          translated == Translate(heard[1], outcome)
                      IN /\ WriteToPty(terminal, VoiceOutput(heard[1], translated))
                         /\ voiceEnter' = Append(voiceEnter, terminal)
                         /\ voiceLog' = Append(voiceLog,
                                [sess |-> terminal, text |-> heard[1],
                                 translated |-> translated])
                ELSE UNCHANGED <<writeLog, uncaught, voiceEnter, voiceLog>>
       ELSE /\ \E ok \in BOOLEAN : is_recording' = ok
            /\ returned' = <<TRUE>>
            /\ mic' = TRUE
            /\ UNCHANGED <<writeLog, uncaught, voiceEnter, voiceLog>>
    /\ UNCHANGED <<winVars, ptyVars, viewVars, workerVars, queue, frame,
                   readLog, fedLog, cleaned, started, scrollVars>>

\* the 100 ms single-shot timer of _on_voice_result fires
VoiceEnter ==
    /\ frame[GUI].op = "none"
    /\ voiceEnter # <<>>
    /\ WriteToPty(EnterTerminal(Head(voiceEnter)), <<"\r">>)
    /\ voiceEnter' = Tail(voiceEnter)
    /\ UNCHANGED <<events, winVars, ptyVars, viewVars, workerVars, queue, frame,
                   readLog, fedLog, cleaned, started, scrollVars,
                   is_recording, mic, returned, voiceLog>>

(********************* the program *****************************************)
Next ==
    \/ \E s \in Sessions : WorkerLoop(s)
    \/ \E s \in Sessions : WorkerRead(s)
    \/ \E s \in Sessions : WorkerEmit(s)
    \/ \E s \in Sessions : WorkerExcept(s)
    \/ \E s \in Sessions : WorkerNotice(s)
    \/ Dispatch
    \/ \E ctx \in Contexts : ProcessOutput(ctx)
    \/ \E d \in KeyData : KeyPress(d)
    \/ \E s \in Sessions : TimerFire(s)
    \/ \E s \in Sessions, vp \in ViewportCells : ResizeEvent(s, vp)
    \/ ScreenResizeStep
    \/ \E o \in StartOutcomes : CreateSession(o)
    \/ \E b \in 0..(MaxSessions - 1) : TabClick(b)
    \/ \E i \in -1..MaxSessions : CloseSession(i)
    \/ CloseSession(current_tab_index)       \* index None (Ctrl+W)
    \/ CloseEvent
    \/ CleanupStart
    \/ CleanupFinish

Spec == Init /\ [][Next]_vars

\* the program with the voice input
VoiceNext ==
    \/ Next
    \/ ToggleRecording
    \/ VoiceEnter

VoiceSpec == Init /\ [][VoiceNext]_vars

(***************************************************************************)
(*                            Properties                                   *)
(***************************************************************************)
IsPrefix(a, b) == Len(a) <= Len(b) /\ SubSeq(b, 1, Len(a)) = a

Failed(s) == started[s] \in {"pty_failed", "spawn_failed"}

\* process_output is running for session s in context ctx
Feeding(ctx, s) == frame[ctx].op = "process_output" /\ frame[ctx].sess = s

\* resizeEvent of session s is between set_size and screen.resize
MidResize(s) == frame[GUI].op = "resizeEvent" /\ frame[GUI].sess = s

\* the data the reader thread of s has handed over or is about to hand
\* over and stream.feed has not yet been given, oldest first
Pending(s) ==
    LET mine == SelectSeq(queue, LAMBDA e : e.sess = s) IN
       (IF Feeding(GUI, s) THEN <<frame[GUI].data>> ELSE <<>>)
    \o [i \in 1..Len(mine) |-> mine[i].data]
    \o (IF Feeding(Worker(s), s) THEN <<frame[Worker(s)].data>> ELSE <<>>)
    \o (IF wpc[s] = "emit" THEN <<wdata[s]>> ELSE <<>>)

\* everything fed or still to be fed for s, in order
Stream(s) == fedLog[s] \o Pending(s)

\* the pump states: Idle 0, Running 1, Draining 2, Stopped 3
PumpRank(pc) ==
    CASE pc = "idle" -> 0
      [] pc \in {"loop", "read", "emit"} -> 1
      [] pc \in {"except", "notice"} -> 2
      [] OTHER -> 3

\* the per-session state of s
SessState(s) ==
    <<pty_process[s], chan[s], ptySize[s], running[s], read_thread[s], wpc[s],
      wdata[s], screen[s], last_text[s], plainText[s], timers[s]>>

\* the sessions the step operates on: the one whose reader thread moves,
\* whose handler or slot a context enters or continues, whose channel is
\* written, whose timer fires, or which is created
Operated ==
    {s \in Sessions :
        \/ wpc'[s] # wpc[s]
        \/ \E ctx \in Contexts :
              /\ frame'[ctx] # frame[ctx]
              /\ s = (IF frame[ctx].op # "none" THEN frame[ctx].sess
                                               ELSE frame'[ctx].sess)
        \/ writeLog'[s] # writeLog[s]
        \/ timers'[s] # timers[s]
        \/ started'[s] # started[s]}

(************************************ C1 ***********************************)
\* C1 as stated: what stream.feed has been given for a session is an
\* initial part of the non-empty chunks read_pty read for it, in read
\* order.  Refuted: the "[Session ended]" notice is fed as well, and it
\* was never read.
C1_FedIsWhatWasRead == \A s \in Sessions : IsPrefix(fedLog[s], readLog[s])

\* C1: for each session, what stream.feed has been given, followed by
\* what is still on its way to it, is exactly the non-empty chunks read,
\* in read order, each once, followed by at most the one "[Session ended]"
\* notice.
C1_ChunksInReadOrder ==
    \A s \in Sessions :
        Stream(s) \in {readLog[s], readLog[s] \o <<Notice>>}

\* two different chunks were read for one session and both have been
\* fed, in read order
C1_TwoChunksFed ==
    \E s \in Sessions :
        /\ Len(readLog[s]) = 2 /\ fedLog[s] = readLog[s]
        /\ readLog[s][1] # readLog[s][2]

(************************************ C2 ***********************************)
\* C2: stream.feed, render_screen and screen.resize of a session run only
\* in the GUI thread, never in a reader thread, so at most one of them
\* is in progress for a session at a time.
C2_ScreenOwnedByGuiThread ==
    \A s \in Sessions :
        LET busy == {ctx \in Contexts :
                        /\ frame[ctx].sess = s
                        /\ frame[ctx].op \in {"process_output", "resizeEvent"}}
        IN  busy \subseteq {GUI} /\ Cardinality(busy) <= 1

\* the GUI thread is inside process_output for a session whose reader
\* thread holds the next chunk, about to emit it
C2_FeedWhileWorkerEmits ==
    \E s \in Sessions : Feeding(GUI, s) /\ wpc[s] = "emit"

(************************************ C3 ***********************************)
\* C3 as stated: once cleanup has returned for a session, its reader
\* thread is not inside the read loop and has no read in progress.
\* Refuted: cleanup sets running and closes the channel without joining
\* the thread.
C3_CleanupWaitsForWorker ==
    \A s \in Sessions :
        cleaned[s] > 0 => wpc[s] \in {"idle", "exit", "break"}

(************************************ C4 ***********************************)
\* C4: every cleanup call returns without an exception, with running
\* False and the channel (if there is one) closed, and starts no thread;
\* after the first call has returned, no later step, a further cleanup
\* included, changes running, the channel or the thread of the session.
C4_CleanupIdempotent ==
    [][\A s \in Sessions :
          /\ cleaned'[s] # cleaned[s] =>
                /\ ~running'[s]
                /\ pty_process[s] = "PTY" => chan'[s] = "closed"
                /\ ~uncaught'
                /\ read_thread'[s] = read_thread[s]
                /\ wpc'[s] = wpc[s]
          /\ cleaned[s] > 0 =>
                /\ running'[s] = running[s]
                /\ chan'[s] = chan[s]
                /\ pty_process'[s] = pty_process[s]
                /\ read_thread'[s] = read_thread[s]
                /\ PumpRank(wpc'[s]) >= PumpRank(wpc[s])]_vars

\* cleanup has returned twice for a session whose reader thread had
\* stopped on a read failure, and once for a session whose start failed
C4_CleanedTwice ==
    \E s \in Sessions :
        /\ cleaned[s] = 2 /\ wpc[s] = "break" /\ read_thread[s] = "Thread"
        /\ \E t \in Sessions : Failed(t) /\ cleaned[t] >= 1

(************************************ C5 ***********************************)
\* C5: the reader thread of a session only moves forward through Idle,
\* Running, Draining, Stopped; once Stopped it stays where it is, no
\* thread is started for the session again, and nothing more is read.
C5_PumpForwardOnly ==
    [][\A s \in Sessions :
          /\ PumpRank(wpc'[s]) >= PumpRank(wpc[s])
          /\ PumpRank(wpc[s]) = 3 =>
                /\ wpc'[s] = wpc[s]
                /\ read_thread'[s] = read_thread[s]
                /\ readLog'[s] = readLog[s]]_vars

\* a reader thread that read a chunk has stopped through the except clause,
\* and another session has been created since
C5_StoppedAfterReading ==
    \E s \in Sessions :
        /\ wpc[s] = "break" /\ readLog[s] # <<>>
        /\ \E t \in Sessions : t > s /\ started[t] = "ok"

(************************************ C6 ***********************************)
\* C6 as stated: a reader thread that stopped on a failed read has
\* delivered the "[Session ended]" notice.  Refuted: the except clause
\* emits it only if self.running is still True.
C6_FailedReadDeliversNotice ==
    \A s \in Sessions :
        wpc[s] = "break" =>
            Stream(s) # <<>> /\ Stream(s)[Len(Stream(s))] = Notice

\* C6: when a read fails, the reader thread emits the notice if running is
\* still True when the except clause tests it, and emits nothing
\* otherwise; either way it stops.  The notice comes after every chunk
\* read and is the last thing that thread delivers.
C6_NoticeLastIfRunning ==
    /\ [](\A s \in Sessions :
            \A i \in 1..Len(Stream(s)) :
                Stream(s)[i] = Notice =>
                    /\ i = Len(Stream(s))
                    /\ wpc[s] = "break"
                    /\ SubSeq(Stream(s), 1, i - 1) = readLog[s])
    /\ [][\A s \in Sessions :
            /\ wpc[s] = "except" /\ wpc'[s] # wpc[s] =>
                  /\ wpc'[s] = (IF running[s] THEN "notice" ELSE "break")
                  /\ Stream(s)' = Stream(s)
            /\ wpc[s] = "notice" /\ wpc'[s] # wpc[s] =>
                  /\ wpc'[s] = "break"
                  /\ Stream(s)' = readLog[s] \o <<Notice>>]_vars

\* a read failed after a chunk, with running True; chunk and notice have
\* been fed, in that order
C6_NoticeFedAfterChunk ==
    \E s \in Sessions :
        /\ wpc[s] = "break" /\ running[s]
        /\ readLog[s] # <<>> /\ fedLog[s] = readLog[s] \o <<Notice>>

C8_FailedWriteNonFatal ==
    [][\A s \in Sessions :
          (/\ Len(writeLog'[s]) = Len(writeLog[s]) + 1
           /\ ~writeLog'[s][Len(writeLog'[s])].ok) =>
                /\ ~uncaught'
                /\ running' = running
                /\ <<wpc, wdata, read_thread>>' = <<wpc, wdata, read_thread>>
                /\ <<pty_process, chan>>' = <<pty_process, chan>>
                /\ <<screen, last_text, plainText>>' = <<screen, last_text, plainText>>
                /\ queue' = queue]_vars

\* after a failed write on an open channel a second write was accepted,
\* and the reader thread is still reading
C8_WriteAfterFailedWrite ==
    \E s \in Sessions :
        /\ Len(writeLog[s]) = 2
        /\ ~writeLog[s][1].ok /\ writeLog[s][2].ok
        /\ running[s] /\ wpc[s] = "read"

(************************************ C9 ***********************************)
\* C9: while a resizeEvent of a session is between its set_size call and
\* its screen.resize call, no stream.feed of that session runs.
C9_ResizeAtomic ==
    [][\A s \in Sessions :
          MidResize(s) =>
              /\ fedLog'[s] = fedLog[s]
              /\ \A ctx \in Contexts : ~Feeding(ctx, s)]_vars

\* a resizeEvent is between set_size and screen.resize while a chunk of
\* the same session waits in the queue
C9_ChunkQueuedMidResize ==
    \E s \in Sessions :
        /\ MidResize(s)
        /\ \E i \in 1..Len(queue) : queue[i].sess = s
        /\ ptySize[s] # <<screen[s].columns, screen[s].lines>>

(************************************ C10 **********************************)
\* C10: every step that changes the state of a session (channel, size,
\* running, reader thread, screen with scrollback, cached and shown text,
\* timers) is a step operating on that session, and it leaves the state
\* of every other session unchanged.
C10_SessionsIndependent ==
    [][/\ \A s \in Operated : \A t \in Sessions \ {s} : SessState(t)' = SessState(t)
       /\ (\E t \in Sessions : SessState(t)' # SessState(t)) => Operated # {}]_vars

\* one session was fed a chunk and cleaned up while another one keeps
\* running with its channel open and its reader thread reading
C10_OneClosedOtherRunning ==
    \E s, t \in Sessions :
        /\ s # t
        /\ fedLog[s] # <<>> /\ cleaned[s] = 1 /\ chan[s] = "closed"
        /\ running[t] /\ chan[t] = "open" /\ wpc[t] = "read"
        /\ fedLog[t] = <<>>

MaxLabSteps == 4
\* history of the small screens; the grid of the scrolling scenario has
\* the program's history
LabHistory == 2
\* rows of the grid of the scrolling scenario; that grid is not resized
ScrollRows == 10

Newlines(n) == [i \in 1..n |-> "\n"]

LabChunks ==
    {<<"x">>, <<"\n">>, <<"y", "\r", "\n">>,
     <<ESC, "[">>, <<"2", "C", "x">>, <<ESC, "[", "A">>,
     <<ESC, "[", "2", ";", "A", "x">>,
     Newlines(ScrollRows)}

\* <<cols, rows>>
LabBase == <<2, 2>>
LabSizes == {<<2, 1>>, <<2, 2>>, <<2, 3>>, <<3, 2>>}
LabStart == {LabBase, <<2, ScrollRows>>}

\* one started widget whose screen has the given size and history
LabWidget(size, history) ==
        LET st == StartPty("ok") IN
        /\ session_counter = 1
        /\ terminals = <<1>>
        /\ tab_buttons = <<0>>
        /\ checked = <<TRUE>>
        /\ current_tab_index = 0
        /\ events = 0
        /\ pty_process = [s \in Sessions |-> IF s = 1 THEN st.pty_process ELSE "None"]
        /\ chan = [s \in Sessions |-> IF s = 1 THEN st.chan ELSE "none"]
        /\ ptySize = [s \in Sessions |-> size]
        /\ running = [s \in Sessions |-> IF s = 1 THEN st.running ELSE FALSE]
        /\ read_thread = [s \in Sessions |-> IF s = 1 THEN st.read_thread ELSE "None"]
        /\ screen = [s \in Sessions |-> NewScreen(size[1], size[2], history)]
        /\ last_text = [s \in Sessions |-> <<>>]
        /\ plainText = [s \in Sessions |-> <<>>]
        /\ timers = [s \in Sessions |-> IF s = 1 THEN st.timers ELSE <<>>]
        /\ wpc = [s \in Sessions |-> IF s = 1 THEN st.wpc ELSE "idle"]
        /\ wdata = [s \in Sessions |-> <<>>]
        /\ queue = <<>>
        /\ frame = [c \in Contexts |-> NoFrame]
        /\ uncaught = FALSE
        /\ readLog = [s \in Sessions |-> <<>>]
        /\ fedLog = [s \in Sessions |-> <<>>]
        /\ writeLog = [s \in Sessions |-> <<>>]
        /\ cleaned = [s \in Sessions |-> 0]
        /\ started = [s \in Sessions |-> IF s = 1 THEN "ok" ELSE "none"]
        /\ sbValue = [s \in Sessions |-> 0]
        /\ sbMax = [s \in Sessions |-> 0]
        /\ user_scrolling = [s \in Sessions |-> FALSE]
        /\ is_recording = FALSE
        /\ mic = FALSE
        /\ returned = <<>>
        /\ voiceEnter = <<>>
        /\ voiceLog = <<>>

LabInit ==
    \E size \in LabStart :
        LabWidget(size, IF size[2] = ScrollRows THEN HistorySize ELSE LabHistory)

\* process_output(data) is called
LabDeliver(data) ==
    /\ Idle(GUI) /\ events < MaxLabSteps
    /\ events' = events + 1
    /\ frame' = [frame EXCEPT ![GUI] =
            [NoFrame EXCEPT !.op = "process_output", !.pc = "feed",
                            !.sess = 1, !.data = data]]
    /\ UNCHANGED <<winVars, ptyVars, viewVars, workerVars, queue, uncaught, logVars>>
    /\ UNCHANGED <<scrollVars, voiceVars>>

\* screen.resize(rows, cols) is called
LabResize(size) ==
    /\ Idle(GUI) /\ events < MaxLabSteps
    /\ screen[1].lines # ScrollRows
    /\ events' = events + 1
    /\ frame' = [frame EXCEPT ![GUI] =
            [NoFrame EXCEPT !.op = "resizeEvent", !.pc = "screen_resize",
                            !.sess = 1, !.arg = size]]
    /\ UNCHANGED <<winVars, ptyVars, viewVars, workerVars, queue, uncaught, logVars>>
    /\ UNCHANGED <<scrollVars, voiceVars>>

LabNext ==
    \/ \E data \in LabChunks : LabDeliver(data)
    \/ ProcessOutput(GUI)
    \/ \E size \in LabSizes : LabResize(size)
    \/ ScreenResizeStep

LabSpec == LabInit /\ [][LabNext]_vars

(********************* one widget with a scroll bar in use *****************)
\* <<cols, rows>> of the widget: its viewport shows one line
ScrollGrid == <<2, 1>>

\* chunks: one that scrolls the grid until the text has more lines than the
\* viewport and the tolerance together, one that adds to the text, one that
\* blanks the bottom row
ScrollChunks ==
    {Newlines(Tolerance + ScrollGrid[2]) \o <<"x">>,
     <<"y">>,
     <<"\r", " ", " ">>}

\* the user moves the scroll bar of session s to value (wheel, drag, keys of
\* the bar): valueChanged, _on_scroll
UserScroll(s, value) ==
    /\ Idle(GUI) /\ events < MaxLabSteps
    /\ events' = events + 1
    /\ value \in 0..sbMax[s] /\ value # sbValue[s]
    /\ sbValue' = [sbValue EXCEPT ![s] = value]
    /\ user_scrolling' = [user_scrolling EXCEPT ![s] = OnScroll(value, sbMax[s])]
    /\ UNCHANGED <<sbMax, winVars, ptyVars, viewVars, workerVars, queue, frame,
                   uncaught, logVars, voiceVars>>

ScrollInit == LabWidget(ScrollGrid, HistorySize)

ScrollNext ==
    \/ \E data \in ScrollChunks : LabDeliver(data)
    \/ ProcessOutput(GUI)
    \/ \E value \in 0..(Tolerance + 1) : UserScroll(1, value)

ScrollSpec == ScrollInit /\ [][ScrollNext]_vars

\* the cell at row y, column x (0-based) of the grid: " " when empty
Cell(scr, y, x) ==
    LET row == Row(scr.buffer, y) IN
    IF x + 1 <= Len(row) /\ row[x + 1] # Absent THEN row[x + 1] ELSE " "

\* the visible grid, cell by cell
Grid(scr) ==
    [y \in 0..(scr.lines - 1) |-> [x \in 0..(scr.columns - 1) |-> Cell(scr, y, x)]]

\* what process_output(data) leaves of the screen and stream
Delivered(scr, data) ==
    IF FeedRaises(scr, data) THEN Feed(scr, data) ELSE Rendered(Feed(scr, data))

\* grid, cursor, scrollback and parser state
Model(scr) ==
    <<Grid(scr), scr.x, scr.y, scr.top, scr.parser, scr.params, scr.current>>

(************************************ C12 **********************************)
\* C12 as stated: the cursor of every screen is inside the grid,
\* 0 <= row < rows and 0 <= col < cols.  Refuted: after a character is
\* drawn in the last column the cursor column equals cols, and
\* screen.resize to fewer rows or columns leaves the cursor where it was.
C12_CursorInsideGrid ==
    \A s \in Sessions :
        /\ 0 <= screen[s].y /\ screen[s].y < screen[s].lines
        /\ 0 <= screen[s].x /\ screen[s].x < screen[s].columns

(************************************ C13 **********************************)
\* C13 as stated: from any screen, process_output of a string in one call
\* leaves the same grid, cursor, scrollback and parser state as
\* process_output of its two parts, wherever it is split.  Refuted: a
\* sequence whose method raises (C19) ends the call, and what follows it
\* in the same call is lost, while a later call interprets it.
C13_ChunkBoundaryInvariance ==
    \A data \in LabChunks : \A k \in 0..Len(data) :
        Model(Delivered(Delivered(screen[1], SubSeq(data, 1, k)),
                        SubSeq(data, k + 1, Len(data))))
            = Model(Delivered(screen[1], data))

(************************************ C14 **********************************)
\* C14: the scrollback of a screen never holds more rows than its
\* maximum; a step evicts only the oldest rows, and only when the
\* scrollback is full afterwards; a line feed on the bottom row appends
\* the top row of the grid, evicting the oldest row when the scrollback
\* was full.
C14_ScrollbackBounded ==
    /\ [](\A s \in Sessions : Len(screen[s].top) <= screen[s].history)
    /\ [][\A s \in Sessions :
            LET old == screen[s].top
                new == screen'[s].top
            IN /\ \E j \in 0..Len(old) :
                    /\ IsPrefix(SubSeq(old, j + 1, Len(old)), new)
                    /\ j > 0 => Len(new) = screen[s].history
               /\ (/\ Feeding(GUI, s) /\ frame[GUI].data = <<"\n">>
                   /\ screen[s].parser = "ground"
                   /\ screen[s].y = screen[s].lines - 1) =>
                      new = (IF Len(old) = screen[s].history
                             THEN Append(Tail(old), Row(screen[s].buffer, 0))
                             ELSE Append(old, Row(screen[s].buffer, 0)))]_vars

\* three rows were scrolled off a grid whose scrollback holds two: the
\* first one, "2C", is gone, and the two newer ones are kept in order
C14_OldestRowEvicted ==
    /\ screen[1].history = LabHistory
    /\ Len(screen[1].top) = LabHistory
    /\ fedLog[1] = <<<<"2", "C", "x">>, <<"y", "\r", "\n">>, <<"\n">>, <<"\n">>>>
    /\ screen[1].top[1] = <<"x", "y">>
    /\ screen[1].top[LabHistory] = BlankRow

(************************************ C15 **********************************)
\* C15: render_screen called twice in a row, from any state, computes the
\* same text both times, and the second call rewrites nothing: it
\* reports no change and leaves _last_text and the shown text as the
\* first call left them.
C15_RenderTwice ==
    \A s \in Sessions :
        LET r1 == RenderScreen(screen[s], last_text[s], plainText[s])
            r2 == RenderScreen(r1.screen, r1.last_text, r1.plainText)
        IN /\ RenderText(r1.screen) = RenderText(screen[s])
           /\ ~r2.changed
           /\ r2.last_text = r1.last_text
           /\ r2.plainText = r1.plainText
           /\ r2.last_text = RenderText(screen[s])

\* a screen.resize changed the text of a screen that had been rendered,
\* so that the first of the two calls rewrites the text
C15_StaleAfterResize ==
    /\ Idle(GUI) /\ last_text[1] # <<>>
    /\ fedLog[1] # <<>> /\ ~uncaught
    /\ RenderScreen(screen[1], last_text[1], plainText[1]).changed

(************************************ C16 **********************************)
\* a row as the claim projects it: the cells of columns 0..cols-1 in
\* order, a space for each empty cell, trailing blanks removed
ProjectRow(row, columns) ==
    RStrip([x \in 1..columns |->
              IF x <= Len(row) /\ row[x] # Absent THEN row[x] ELSE " "])

Projected(scr) ==
    Join(DropTrailingEmpty(
            [i \in 1..Len(scr.top) |-> ProjectRow(scr.top[i], scr.columns)]
         \o [i \in 1..scr.lines |-> ProjectRow(Row(scr.buffer, i - 1), scr.columns)]))

\* C16 as stated: the text render_screen computes is the scrollback rows,
\* oldest first, then the grid rows, each row its cells in column order
\* with a space for each empty cell and trailing blanks removed, trailing
\* empty rows dropped.  Refuted: a scrollback row is joined from the cells
\* present in it only, so its empty cells before and between characters
\* are left out.
C16_ProjectionKeepsBlanks ==
    \A s \in Sessions : RenderText(screen[s]) = Projected(screen[s])

(************************************ C17 **********************************)
\* C17 as stated: from any screen, screen.resize to a size with at least
\* as many rows and columns, then back to the original size, gives back
\* the same grid and the same scrollback.  Refuted: the shrink deletes
\* the rows added by the growth from the top of the grid.
C17_ResizeRoundTrip ==
    \A s \in Sessions : \A size \in LabSizes :
        (size[1] >= screen[s].columns /\ size[2] >= screen[s].lines) =>
            LET back == ScreenResize(ScreenResize(screen[s], size[2], size[1]),
                                     screen[s].lines, screen[s].columns)
            IN  Grid(back) = Grid(screen[s]) /\ back.top = screen[s].top

(************************************ C18 **********************************)
\* C18 as stated: twice ScrollRows line feeds into a blank grid of
\* ScrollRows rows leave exactly ScrollRows rows in the scrollback.
\* Refuted: the first ScrollRows - 1 line feeds only move the cursor to the
\* bottom row, the other ScrollRows + 1 scroll.
C18_AsManyRowsAsGrid ==
    (/\ screen[1].lines = ScrollRows
     /\ fedLog[1] = <<Newlines(ScrollRows), Newlines(ScrollRows)>>) =>
        Len(screen[1].top) = ScrollRows

\* C18: twice ScrollRows line feeds into a blank grid of ScrollRows rows
\* (20 into 10 rows) leave ScrollRows + 1 rows (11) in the scrollback and
\* the cursor on the bottom row; every line feed on the bottom row
\* appends exactly the top row of the grid to the scrollback, moves the
\* other rows up by one and leaves the bottom row blank.
C18_ScrollEvictsTopRow ==
    /\ []((/\ screen[1].lines = ScrollRows
           /\ fedLog[1] = <<Newlines(ScrollRows), Newlines(ScrollRows)>>) =>
              /\ Len(screen[1].top) = ScrollRows + 1
              /\ screen[1].y = ScrollRows - 1)
    /\ [][\A s \in Sessions :
            (/\ Feeding(GUI, s) /\ frame[GUI].data = <<"\n">>
             /\ screen[s].parser = "ground"
             /\ screen[s].y = screen[s].lines - 1
             /\ Len(screen[s].top) < screen[s].history) =>
                /\ screen'[s].top = Append(screen[s].top, Row(screen[s].buffer, 0))
                /\ \A y \in 0..(screen[s].lines - 2) :
                      Grid(screen'[s])[y] = Grid(screen[s])[y + 1]
                /\ \A x \in 0..(screen[s].columns - 1) :
                      Grid(screen'[s])[screen[s].lines - 1][x] = " "
                /\ screen'[s].y = screen[s].y]_vars

\* the scenario has run on the grid of ScrollRows rows
C18_ScenarioRun ==
    /\ screen[1].lines = ScrollRows /\ Idle(GUI)
    /\ fedLog[1] = <<Newlines(ScrollRows), Newlines(ScrollRows)>>
    /\ Len(screen[1].top) = ScrollRows + 1

(************************************ C19 **********************************)
\* C19 as stated: no exception leaves process_output, whatever the chunk.
\* Refuted: a CSI sequence with more parameters than the Screen method of
\* its final character takes makes stream.feed raise TypeError.
C19_ProcessOutputNeverRaises == ~uncaught

(********************* key events on one terminal **************************)
\* The key encoder is checked on the first session as the window builds
\* it, with key events delivered to TerminalWidget.keyPressEvent.
MaxKeys == 2

\* the keys of an event: the named keys, letters inside and at the ends
\* of A..Z, and the keys just outside that range ("@", "[")
EventKeys ==
    {Key_Return, Key_Enter, Key_Backspace, Key_Tab, Key_Escape, Key_Up,
     Key_Down, Key_Right, Key_Left, Key_Home, Key_End, Key_Delete,
     Key_PageUp, Key_PageDown, Key_A, Key_C, Key_D, Key_L, Key_V, Key_Z,
     Key_A - 1, Key_Z + 1}

EventModifiers == SUBSET {"Control", "Shift", "Alt"}

\* event.text(): none, or "x"
EventTexts == {NoBytes, <<120>>}

KeyEvents ==
    [key : EventKeys, modifiers : EventModifiers, text : EventTexts]

\* clipboard.text(): empty, or "p"
ClipTexts == {NoBytes, <<112>>}

\* Qt calls keyPressEvent(event) of the focused terminal
KeyDeliver(event) ==
    /\ Idle(GUI) /\ events < MaxKeys
    /\ events' = events + 1
    /\ frame' = [frame EXCEPT ![GUI] =
            [NoFrame EXCEPT !.op = "keyPressEvent", !.pc = "encode",
                            !.sess = 1, !.arg = event]]
    /\ UNCHANGED <<winVars, ptyVars, viewVars, workerVars, queue, uncaught, logVars>>
    /\ UNCHANGED <<scrollVars, voiceVars>>

\* the body of keyPressEvent runs
KeyPressEvent ==
    /\ frame[GUI].op = "keyPressEvent"
    /\ \E clip \in ClipTexts :
          TerminalKeyPress(frame[GUI].sess, frame[GUI].arg, clip)
    /\ frame' = [frame EXCEPT ![GUI] = NoFrame]
    /\ UNCHANGED <<winVars, ptyVars, viewVars, workerVars, queue, events,
                   readLog, fedLog, cleaned, started>>
    /\ UNCHANGED <<scrollVars, voiceVars>>

KeyNext ==
    \/ \E event \in KeyEvents : KeyDeliver(event)
    \/ KeyPressEvent

KeySpec == Init /\ [][KeyNext]_vars

(************************************ C20 **********************************)
\* the mapping table of the named keys
C20_Table ==
    (Key_Return :> <<13>>) @@ (Key_Enter :> <<13>>) @@ (Key_Backspace :> <<127>>)
    @@ (Key_Tab :> <<9>>) @@ (Key_Escape :> <<27>>)
    @@ (Key_Up :> <<27, 91, 65>>) @@ (Key_Down :> <<27, 91, 66>>)
    @@ (Key_Right :> <<27, 91, 67>>) @@ (Key_Left :> <<27, 91, 68>>)
    @@ (Key_Home :> <<27, 91, 72>>) @@ (Key_End :> <<27, 91, 70>>)
    @@ (Key_Delete :> <<27, 91, 51, 126>>)
    @@ (Key_PageUp :> <<27, 91, 53, 126>>)
    @@ (Key_PageDown :> <<27, 91, 54, 126>>)

\* C20: keyPressEvent of an event whose key is a named key makes exactly
\* one write of the key's sequence of the table, whatever the event's
\* modifiers and text are (one pty_process.write when the session has a
\* channel object, whether the write succeeds or raises; a session whose
\* start failed before the channel was created has nothing to write to),
\* and nothing escapes the handler.
C20_NamedKeysWriteTheirSequence ==
    [][(/\ frame[GUI].op = "keyPressEvent"
        /\ frame[GUI].arg.key \in DOMAIN C20_Table) =>
          LET s == frame[GUI].sess
              bytes == C20_Table[frame[GUI].arg.key]
          IN /\ uncaught' = uncaught
             /\ \A t \in Sessions \ {s} : writeLog'[t] = writeLog[t]
             /\ IF pty_process[s] = "None"
                THEN writeLog'[s] = writeLog[s]
                ELSE /\ Len(writeLog'[s]) = Len(writeLog[s]) + 1
                     /\ SubSeq(writeLog'[s], 1, Len(writeLog[s])) = writeLog[s]
                     /\ writeLog'[s][Len(writeLog'[s])].data = bytes]_vars

\* Delete was written for one event, and Up arrives with Control and
\* Shift held and a text of its own
C20_ModifiedArrowAfterDelete ==
    /\ frame[GUI].op = "keyPressEvent"
    /\ frame[GUI].arg = [key |-> Key_Up, modifiers |-> {"Control", "Shift"},
                         text |-> <<120>>]
    /\ writeLog[1] = <<[data |-> <<27, 91, 51, 126>>, ok |-> TRUE]>>

(************************************ C21 **********************************)
\* the step is a run of keyPressEvent that makes exactly one write, of
\* bytes, on the event's session (no write when the session has no channel
\* object), and lets nothing escape
WritesOnce(bytes) ==
    LET s == frame[GUI].sess IN
    /\ uncaught' = uncaught
    /\ \A t \in Sessions \ {s} : writeLog'[t] = writeLog[t]
    /\ IF pty_process[s] = "None"
       THEN writeLog'[s] = writeLog[s]
       ELSE /\ Len(writeLog'[s]) = Len(writeLog[s]) + 1
            /\ SubSeq(writeLog'[s], 1, Len(writeLog[s])) = writeLog[s]
            /\ writeLog'[s][Len(writeLog'[s])].data = bytes

\* the step writes nothing and lets nothing escape
WritesNothing == writeLog' = writeLog /\ uncaught' = uncaught

\* the control code of a letter key: letter - 'A' + 1
ControlCode(key) == key - 65 + 1

Unmapped(event) ==
    /\ event.key \notin DOMAIN C20_Table
    /\ ~(event.modifiers = {"Control"} /\ event.key \in Key_A..Key_Z)
    /\ ~(event.modifiers = {"Control", "Shift"} /\ event.key \in {Key_C, Key_V})

\* C22 as stated: an unmapped event with text writes exactly its text, an
\* unmapped event without text writes nothing, and no event makes more
\* than one write or lets an exception escape.  Refuted: with Control the
\* only modifier and a key outside A..Z the handler takes the Control
\* branch, finds no letter and never reaches the text branch.
C22_TextPassesThrough ==
    [][frame[GUI].op = "keyPressEvent" =>
          LET event == frame[GUI].arg
              s == frame[GUI].sess
          IN /\ uncaught' = uncaught
             /\ Len(writeLog'[s]) <= Len(writeLog[s]) + 1
             /\ (Unmapped(event) /\ event.text # NoBytes) => WritesOnce(event.text)
             /\ (Unmapped(event) /\ event.text = NoBytes) => WritesNothing]_vars

(***************************************************************************)
(* C27: the size of the PTY and the size of the screen                     *)
(***************************************************************************)
ScreenSize(s) == <<screen[s].columns, screen[s].lines>>

\* C27: for a session with a PTY object, whenever the GUI thread is not
\* between the set_size and the screen.resize call of its resizeEvent, the size
\* the PTY has equals the size of the screen: 120x30 until a resize event takes
\* effect, the new cols x rows after one, and the size before it after a
\* resize event whose set_size raised.
C27_PtySizeIsScreenSize ==
    \A s \in Sessions :
        (pty_process[s] # "None" /\ ~MidResize(s)) => ptySize[s] = ScreenSize(s)

\* a resize event has taken effect on a session with a PTY
C27_Resized ==
    \E s \in Sessions :
        /\ pty_process[s] # "None" /\ ~MidResize(s)
        /\ ptySize[s] # <<InitCols, InitRows>>
        /\ ScreenSize(s) # <<InitCols, InitRows>>

(***************************************************************************)
(* C28: writes to the PTY of a closed session                              *)
(***************************************************************************)
\* close_session has cleaned the session up and removed it from the list
Closed(s) == cleaned[s] >= 1 /\ ~InList(s)

\* C28: once close_session has cleaned a session up, no step calls
\* pty_process.write for it: its write log does not grow.
C28_NoWriteAfterClose ==
    [][\A s \in Sessions : Closed(s) => writeLog'[s] = writeLog[s]]_vars

(***************************************************************************)
(* C29: process_output of a closed session                                 *)
(***************************************************************************)
\* C29: once close_session has cleaned a session up, process_output does not
\* run for it: nothing more is fed to its stream.
C29_NoOutputAfterClose ==
    [][\A s \in Sessions : Closed(s) => fedLog'[s] = fedLog[s]]_vars

(***************************************************************************)
(* C30: the session list, the tab buttons and the current index            *)
(***************************************************************************)
IndexArguments == -1..MaxSessions
ValidIndex(index) == Len(terminals) > 1 /\ 0 <= index /\ index < Len(terminals)

WindowShape ==
    /\ Len(terminals) = Len(tab_buttons)
    /\ Len(terminals) >= 1
    /\ 0 <= current_tab_index /\ current_tab_index < Len(terminals)
    \* switch_tab with any index leaves the current index in range
    /\ \A index \in IndexArguments :
            LET c == SwitchTab(current_tab_index, index, Len(terminals))
            IN  0 <= c /\ c < Len(terminals)

\* close_session gets to its cleanup only with more than one session and an
\* index of the list
ClosesOnlyValid ==
    (frame[GUI].op = "none" /\ frame'[GUI].op = "close_session")
        => ValidIndex(frame'[GUI].arg[1])

\* close_session on the only session or with an index outside the list
\* changes nothing
InvalidCloseIsNoOp ==
    \A index \in IndexArguments :
        (CloseSession(index) /\ ~ValidIndex(index))
            => UNCHANGED <<winVars, ptyVars, viewVars, workerVars, queue, frame,
                           uncaught, logVars, scrollVars, voiceVars>>

\* C30: in every state the session list and the tab buttons have the same
\* length, at least 1, and the current index (also after switch_tab with any
\* index) is an index of the list; close_session on the only session or with
\* an index outside the list changes nothing.
C30_WindowInvariant ==
    /\ []WindowShape
    /\ [][ClosesOnlyValid]_vars
    /\ [][InvalidCloseIsNoOp]_vars

\* a session was created and another closed, and one session remains
C30_CreatedAndClosed ==
    /\ \E s \in Sessions : Closed(s)
    /\ Len(terminals) = 1 /\ Len(tab_buttons) = 1 /\ current_tab_index = 0
    /\ session_counter >= 2
    /\ frame[GUI].op = "none"

(***************************************************************************)
(* C24: the reader thread after cleanup                                    *)
(***************************************************************************)
\* a step of the reader thread of session s
WorkerStep(s) ==
    \/ WorkerLoop(s)
    \/ WorkerRead(s)
    \/ WorkerEmit(s)
    \/ WorkerExcept(s)
    \/ WorkerNotice(s)

\* The program with a reader thread that is scheduled whenever it can take a
\* step; pty_process.read() is one step, so a pending read returns or raises.
FairSpec == Spec /\ \A s \in Sessions : WF_vars(WorkerStep(s))

\* after cleanup has returned, the loop test of read_pty does not start
\* another read
NoNewRead ==
    \A s \in Sessions :
        (cleaned[s] >= 1 /\ wpc[s] = "loop") => wpc'[s] # "read"

\* C24: once cleanup of a session has returned, its reader thread starts no
\* further read, and a reader thread that was started eventually reaches the
\* end of read_pty (its loop test fails or it breaks out of the loop).
C24_WorkerStopsAfterCleanup ==
    /\ [][NoNewRead]_vars
    /\ \A s \in Sessions :
            (cleaned[s] >= 1 /\ read_thread[s] = "Thread") ~> Stopped(s)

\* cleanup has returned while the reader thread was inside its loop, and the
\* thread has since reached the end of read_pty
C24_StoppedAfterCleanup ==
    \E s \in Sessions :
        /\ cleaned[s] >= 1 /\ read_thread[s] = "Thread" /\ Stopped(s)
        /\ readLog[s] # <<>>

(***************************************************************************)
(* C23: where a voice result and its Enter are written                     *)
(***************************************************************************)
\* session s gets exactly one more write, of data; no other session gets one
\* (a session without a PTY object gets none)
OneWriteTo(s, data) ==
    /\ \A t \in Sessions \ {s} : writeLog'[t] = writeLog[t]
    /\ IF pty_process[s] = "None" THEN writeLog'[s] = writeLog[s]
       ELSE /\ Len(writeLog'[s]) = Len(writeLog[s]) + 1
            /\ SubSeq(writeLog'[s], 1, Len(writeLog[s])) = writeLog[s]
            /\ writeLog'[s][Len(writeLog'[s])].data = data

\* a voice result is handled: its text, translated when the translation is a
\* non-empty string, is written to the session current at that moment, and an
\* Enter for that session becomes pending
VoiceResultStep ==
    Len(voiceLog') = Len(voiceLog) + 1 =>
        LET rec == voiceLog'[Len(voiceLog')]
            sent == IF rec.translated # <<>> /\ rec.translated[1] # <<>>
                    THEN rec.translated[1] ELSE rec.text
        IN  /\ rec.sess = terminals[current_tab_index + 1]
            /\ OneWriteTo(rec.sess, sent)
            /\ voiceEnter' = Append(voiceEnter, rec.sess)

\* a pending Enter fires: "\r" is written to the session it is pending for,
\* whichever session is current
VoiceEnterStep ==
    Len(voiceEnter') < Len(voiceEnter) =>
        /\ voiceEnter' = Tail(voiceEnter)
        /\ OneWriteTo(Head(voiceEnter), <<"\r">>)

\* the pending Enters are those of the latest voice results, in their order
EntersFollowResults ==
    /\ Len(voiceEnter) <= Len(voiceLog)
    /\ \A i \in 1..Len(voiceEnter) :
            voiceEnter[i] = voiceLog[Len(voiceLog) - Len(voiceEnter) + i].sess

\* C23: a voice result is written (the translation, or the original text when
\* the translation is None or empty) to the session that is current when it
\* arrives, and the "\r" that follows it is written later, to that same
\* session, whatever the current tab is by then.
C23_VoiceTextThenEnter ==
    /\ [][VoiceResultStep]_vars
    /\ [][VoiceEnterStep]_vars
    /\ []EntersFollowResults

\* a translated result and then its Enter were written to session 1, and the
\* Enter fired when session 2 was the current one
C23_EnterAfterTabChange ==
    /\ terminals = <<1, 2>> /\ current_tab_index = 1
    /\ voiceLog = <<[sess |-> 1, text |-> <<"v">>, translated |-> Some(Translation)]>>
    /\ voiceEnter = <<>>
    /\ writeLog[1] = <<[data |-> Translation, ok |-> TRUE],
                       [data |-> <<"\r">>, ok |-> TRUE]>>
    /\ writeLog[2] = <<>>

(***************************************************************************)
(* C26: what toggle_recording returns                                      *)
(***************************************************************************)
\* C26: what toggle_recording returned is the value is_recording has when it
\* returns.
C26_ReturnsIsRecording == returned # <<>> => returned[1] = is_recording

(***************************************************************************)
(* C25: following the bottom of the text                                   *)
(***************************************************************************)
\* the step is a render that rewrites the text of session s
RenderChanges(s) ==
    /\ frame[GUI].op = "process_output" /\ frame[GUI].sess = s
    /\ last_text'[s] # last_text[s]

\* a render that rewrites the text leaves the scroll bar at its maximum when
\* _user_scrolling was false before it, and whenever it is false after it
PinnedAfterRender ==
    \A s \in Sessions :
        RenderChanges(s) =>
            /\ ~user_scrolling[s] => ~user_scrolling'[s]
            /\ ~user_scrolling'[s] => sbValue'[s] = sbMax'[s]

\* _user_scrolling becomes true only in a step that is no render and moves
\* the scroll bar to more than 10 units above its maximum
OnlyManualScrollTurnsOff ==
    \A s \in Sessions :
        (~user_scrolling[s] /\ user_scrolling'[s]) =>
            /\ frame[GUI].op = "none" /\ frame'[GUI].op = "none"
            /\ plainText' = plainText /\ sbMax' = sbMax
            /\ sbValue'[s] # sbValue[s]
            /\ sbValue'[s] < sbMax[s] - 10

\* a manual scroll to 10 units or less above the maximum leaves
\* _user_scrolling false
WithinToleranceFollows ==
    \A s \in Sessions :
        (frame[GUI].op = "none" /\ sbValue'[s] # sbValue[s]
            /\ sbValue'[s] >= sbMax[s] - 10) => ~user_scrolling'[s]

\* C25: a render that changes the text leaves the view at the bottom unless
\* _user_scrolling is set; _user_scrolling is set only by a manual scroll to
\* more than 10 units above the bottom, never by a render.
C25_FollowsBottomUnlessScrolled ==
    /\ [][PinnedAfterRender]_vars
    /\ [][OnlyManualScrollTurnsOff]_vars
    /\ [][WithinToleranceFollows]_vars

\* the user has scrolled up by more than the tolerance and a later render has
\* changed the text without moving the view to the bottom
C25_ScrolledAwayStays ==
    /\ user_scrolling[1]
    /\ sbMax[1] > 10 /\ sbValue[1] < sbMax[1] - 10
    /\ Len(fedLog[1]) = 2
    /\ last_text[1] = plainText[1]
    /\ frame[GUI].op = "none"

(***************************************************************************)
(* C31: tab buttons, their positions and the selected session              *)
(***************************************************************************)
\* every tab button is bound to its own position, and the checked button is
\* the one at the current index
TabsMatchList ==
    /\ Len(checked) = Len(tab_buttons)
    /\ \A i \in 1..Len(tab_buttons) :
            /\ tab_buttons[i] = i - 1
            /\ checked[i] <=> (i - 1 = current_tab_index)

\* a click on the button at position b makes position b current and checked
ClickSelectsPosition ==
    \A b \in 0..(MaxSessions - 1) :
        TabClick(b) => /\ current_tab_index' = b
                       /\ checked'[b + 1]
                       /\ UNCHANGED <<terminals, tab_buttons>>

\* the session whose tab button is checked
SelectedSession == terminals[CHOOSE i \in 1..Len(checked) : checked[i]]

\* a key event is written to the session whose button is checked, and to no
\* other
KeysGoToSelected ==
    \A data \in KeyData :
        KeyPress(data) => OneWriteTo(SelectedSession, data)

\* a voice result is taken for the session whose button is checked
VoiceGoesToSelected ==
    Len(voiceLog') = Len(voiceLog) + 1 =>
        voiceLog'[Len(voiceLog')].sess = SelectedSession

\* C31: every tab button is bound to the position it has in the list, so a
\* click on the button at position i selects the terminal at position i, and
\* key events and voice results go to the session whose tab button is shown
\* as selected.
C31_TabsSelectTheirSession ==
    /\ []TabsMatchList
    /\ [][ClickSelectsPosition]_vars
    /\ [][KeysGoToSelected]_vars
    /\ [][VoiceGoesToSelected]_vars

\* the first session was closed, the button of the second has moved to
\* position 0, and a key event has been written to the second session
C31_KeyAfterClose ==
    /\ terminals = <<2>> /\ tab_buttons = <<0>> /\ checked = <<TRUE>>
    /\ current_tab_index = 0
    /\ cleaned[1] >= 1
    /\ writeLog[1] = <<>>
    /\ Len(writeLog[2]) = 1 /\ writeLog[2][1].data \in KeyData

====
